---- MODULE Spec2Model ----
(***************************************************************************)
(* Model of OutlierDetectionSpec.do_detection                              *)
(* (src/jwst/outlier_detection/outlier_detection_spec.py).                 *)
(*                                                                         *)
(* The controller is modelled statement by statement: pc is the position   *)
(* in do_detection, kwargs the keyword arguments, input_models the caller's*)
(* exposures, drizzled_models / median_model the controller's locals.      *)
(* The collaborators the module imports (the resampler, the weight         *)
(* builder, create_median, detect_outliers, _remove_file) are modelled     *)
(* from the design document, section by section.                           *)
(*                                                                         *)
(* Numbers: fluxes and weights are integers; a reference pixel is a record *)
(* [finite, v] so that "non-finite" (NaN) is a value of its own; maskpt is *)
(* kept in hundredths (30 stands for 0.30).                                *)
(***************************************************************************)
EXTENDS Integers, Sequences, FiniteSets

\* ---------------------------------------------------------------- bounds
\* At most MaxExp exposures in the input set.
MaxExp == 2
\* Pixels of an exposure's native grid.
NPix == 2
\* do_detection is called at most MaxRuns times on the same exposure set.
MaxRuns == 2

\* ------------------------------------------------------------ quality bits
\* Bit of the quality-flag array that marks a pixel unusable on input.
DO_NOT_USE == 1
\* The dedicated bit the Mask Writer ORs into flagged pixels.
OUTLIER == 16

HasBit(x, b) == (x \div b) % 2 = 1

\* x | b for a single bit b.
BitOr(x, b) == IF HasBit(x, b) THEN x ELSE x + b

\* ------------------------------------------------------------ small helpers
Abs(x) == IF x < 0 THEN 0 - x ELSE x

\* The subsequence of s whose positions satisfy keep (a sequence of BOOLEAN).
RECURSIVE Pick(_, _)
Pick(s, keep) ==
    IF s = <<>> THEN <<>>
    ELSE LET rest == Pick(Tail(s), Tail(keep))
         IN  IF Head(keep) THEN <<Head(s)>> \o rest ELSE rest

\* x put into the ascending sequence s, before the values equal to it.
RECURSIVE Insert(_, _)
Insert(x, s) ==
    IF s = <<>> THEN <<x>>
    ELSE IF x <= Head(s) THEN <<x>> \o s
    ELSE <<Head(s)>> \o Insert(x, Tail(s))

\* s in ascending order; equal values keep their input order.
RECURSIVE Sorted(_)
Sorted(s) == IF s = <<>> THEN <<>> ELSE Insert(Head(s), Sorted(Tail(s)))

\* Twice the median of a non-empty sequence: the central value doubled, or the
\* sum of the two central values.
Median2(s) ==
    LET t == Sorted(s)
        n == Len(t)
    IN  IF n % 2 = 1 THEN 2 * t[(n + 1) \div 2]
        ELSE t[n \div 2] + t[n \div 2 + 1]

\* A reference pixel: a finite value, or non-finite ("no consensus").
Fin(x) == [finite |-> TRUE, v |-> x]
NaN == [finite |-> FALSE, v |-> 0]

\* ------------------------------------------------- collaborators (contracts)
\* The path-naming collaborator: a fresh path made of the base path and the suffix.
make_output_path(basepath, suffix) == Append(basepath, suffix)

\* Weight Builder: zero where the quality flags hold a bit that good_bits does
\* not accept, the exposure's unit weight elsewhere.
build_driz_weight(model, weight_type, good_bits) ==
    [p \in 1..Len(model.dq) |->
        IF \E b \in {DO_NOT_USE, OUTLIER} :
               HasBit(model.dq[p], b) /\ ~HasBit(good_bits, b)
        THEN 0 ELSE 1]

\* The common output grid is one pixel longer than a native grid; exposure e
\* lies on it at its dither offset.
GridLen == NPix + 1
Offset(e) == (e - 1) % 2

\* Mosaic Resampler (single=True: one mosaic per exposure).  A grid position the
\* exposure does not cover has weight zero.  With in_memory false the mosaic is
\* written to storage under its own file name and the container holds that
\* name; file = <<>> stands for a mosaic held in memory.
do_drizzle(models, kw) ==
    [e \in 1..Len(models) |->
        LET w    == build_driz_weight(models[e], kw.weight_type, kw.good_bits)
            cov  == [g \in 1..GridLen |->
                        g - Offset(e) >= 1 /\ g - Offset(e) <= NPix]
            name == Append(models[e].filename, "s2d")
        IN  [data     |-> [g \in 1..GridLen |->
                              IF cov[g] THEN models[e].data[g - Offset(e)] ELSE 0],
             wht      |-> [g \in 1..GridLen |->
                              IF cov[g] THEN w[g - Offset(e)] ELSE 0],
             filename |-> name,
             file     |-> IF kw.in_memory THEN <<>> ELSE name]]

\* Median Combiner, one grid position: the reference weight is the median of
\* the non-zero weights, a member is included when its weight is at or above
\* maskpt x reference weight, the output is the median of the included data
\* values, or non-finite when no member is included.
MedianPixel(stack, maskpt, g) ==
    LET N    == Len(stack)
        w    == [m \in 1..N |-> stack[m].wht[g]]
        d    == [m \in 1..N |-> stack[m].data[g]]
        nz   == Pick(w, [m \in 1..N |-> w[m] # 0])
    IN  IF nz = <<>> THEN NaN
        ELSE LET refw2 == Median2(nz)
                 keep  == [m \in 1..N |-> 200 * w[m] >= maskpt * refw2]
                 vals  == Pick(d, keep)
             IN  IF vals = <<>> THEN NaN ELSE Fin(Median2(vals) \div 2)

create_median(stack, maskpt) ==
    [g \in 1..Len(stack[1].data) |-> MedianPixel(stack, maskpt, g)]

\* Back-Projector: the reference read at the exposure's place on the grid; a
\* native pixel that falls outside the reference has no value.
blot(reference, e) ==
    [p \in 1..NPix |->
        IF p + Offset(e) \in DOMAIN reference THEN reference[p + Offset(e)] ELSE NaN]

\* The values resample_data is given: the booleans, and 1 for a value that is
\* true in a condition without being the object True.
ResampleValues == {"True", "False", "1"}

\* The truth of a value in a condition.
Truthy(v) == v # "False"

\* The reference on the native grid of exposure e: back-projected when
\* detect_outliers is told resampling was used, the reference itself otherwise.
NativeReference(reference, e, resample_data) ==
    IF Truthy(resample_data) THEN blot(reference, e) ELSE reference

\* Two-term noise model: a term scaling with the signal and a floor.
Sigma(ref, scale) == scale[1] * Abs(ref) + scale[2]

\* Outlier Comparator: a pixel with a non-finite reference is skipped; a pixel
\* is an outlier when its residual exceeds both tiers of the test.
compare(data, native, snr, scale, backg) ==
    [p \in 1..Len(data) |->
        /\ native[p].finite
        /\ LET r == Abs(data[p] - native[p].v - backg)
               s == Sigma(native[p].v, scale)
           IN  r > snr[1] * s /\ r > snr[2] * s]

\* Mask Writer: OR the outlier bit into the pixels of the mask.
mask_writer(dq, mask) ==
    [p \in 1..Len(dq) |-> IF mask[p] THEN BitOr(dq[p], OUTLIER) ELSE dq[p]]

\* ----------------------------------------------------------------- state
VARIABLES
    kwargs,           \* the keyword arguments of the call; missing names an absent key
    input_models,     \* the caller's exposures: [data, dq, wht, filename, file]
    drizzled_models,  \* [is_input, models]: the input set itself, or the mosaics
    median_model,     \* [made, computed, data]; its meta is drizzled_models[0].meta
    disk,             \* the files in storage
    saved,            \* the paths the controller saved to in this run, in order
    opened,           \* the files read in this run
    removed,          \* the files the controller removed in this run
    pc,               \* the position in do_detection
    i,                \* the index of the loop in progress
    error,            \* the exception that ended the run, or "none"
    calls,            \* the collaborators invoked in this run
    compared,         \* the exposures compared and flagged in this run
    reported,         \* the exposures whose comparison failed in this run
    pre,              \* input_models and disk as they were when the run began
    runs              \* the number of the run

vars == <<kwargs, input_models, drizzled_models, median_model, disk, saved,
          opened, removed, pc, i, error, calls, compared, reported, pre, runs>>

\* The options do_detection looks up in kwargs.
Keys == {"resample_data", "weight_type", "good_bits", "maskpt", "snr", "scale",
         "backg", "save_intermediate_results", "in_memory", "make_output_path"}

\* kwargs[key] raises KeyError when the key is absent.
Has(key) == kwargs.missing # key

NoMosaics == [is_input |-> FALSE, models |-> <<>>]
NoMedian == [made |-> FALSE, computed |-> FALSE, data |-> <<>>]

\* The models drizzled_models names: with resampling disabled the very objects
\* of input_models.
Drizzled == IF drizzled_models.is_input THEN input_models ELSE drizzled_models.models

\* The files behind the entries of a container (an entry held in memory has none).
Files(models) == {models[m].file : m \in 1..Len(models)} \ {<<>>}

\* median_model.meta is the meta object of drizzled_models[0].
MedianFilename == Drizzled[1].filename

\* An exposure set: every flux is 10 except at most one hot pixel of 100; the
\* exposures of bad have DO_NOT_USE set on their first pixel; the weight
\* attribute is unset (zero); on_disk says whether the container holds file
\* names or open models.
Exposures(n, hot, bad, on_disk) ==
    [e \in 1..n |->
        [data     |-> [p \in 1..NPix |-> IF hot = <<e, p>> THEN 100 ELSE 10],
         dq       |-> [p \in 1..NPix |-> IF e \in bad /\ p = 1 THEN DO_NOT_USE ELSE 0],
         wht      |-> [p \in 1..NPix |-> 0],
         filename |-> <<"exp", e>>,
         file     |-> IF on_disk THEN <<"exp", e>> ELSE <<>>]]

Init ==
    /\ \E n \in 0..MaxExp, on_disk \in BOOLEAN :
       \E hot \in {<<0, 0>>} \cup ((1..n) \X (1..NPix)), bad \in SUBSET (1..n) :
          /\ input_models = Exposures(n, hot, bad, on_disk)
          /\ disk = Files(Exposures(n, hot, bad, on_disk))
    /\ \E r \in ResampleValues, s \in BOOLEAN, m \in BOOLEAN, k \in Keys \cup {"none"} :
          kwargs = [resample_data |-> r, save_intermediate_results |-> s,
                    in_memory |-> m, missing |-> k,
                    weight_type |-> "exptime", good_bits |-> 0, maskpt |-> 30,
                    snr |-> <<5, 4>>, scale |-> <<0, 2>>, backg |-> 0]
    /\ drizzled_models = NoMosaics
    /\ median_model = NoMedian
    /\ saved = <<>>
    /\ opened = {}
    /\ removed = {}
    /\ pc = "start"
    /\ i = 1
    /\ error = "none"
    /\ calls = {}
    /\ compared = {}
    /\ reported = {}
    /\ pre = [models |-> input_models, disk |-> disk]
    /\ runs = 1

\* Raise as it would be were the exception caught and logged and the run
\* carried on to the comparison.
RaiseSwallowed(err) ==
    /\ pc' = "detect"
    /\ error' = err
    /\ i' = 1

\* An exception leaves do_detection: nothing catches it.
Raise(err) ==
    /\ pc' = "failed"
    /\ error' = err
    /\ i' = 1

\* ------------------------------------------------------------ do_detection
\* Lines 43-46: _convert_inputs, then the lookups of save_intermediate_results
\* and resample_data, and the branch on "resample_data is True".
Begin ==
    /\ pc = "start"
    /\ \/ /\ ~(Has("save_intermediate_results") /\ Has("resample_data"))
          /\ Raise("KeyError")
       \/ /\ Has("save_intermediate_results") /\ Has("resample_data")
          /\ pc' = IF kwargs.resample_data = "True" THEN "resample" ELSE "no_resample"
          /\ UNCHANGED <<i, error>>
    /\ UNCHANGED <<kwargs, input_models, drizzled_models, median_model, disk, saved,
                   opened, removed, calls, compared, reported, pre, runs>>

\* Resample as it would be did it save the mosaics whatever
\* save_intermediate_results says.
ResampleAlwaysSave ==
    /\ pc = "resample"
    /\ calls' = calls \cup {"resample"}
    /\ opened' = opened \cup Files(input_models)
    /\ \/ /\ Raise("ResampleError")
          /\ UNCHANGED <<drizzled_models, disk>>
       \/ /\ drizzled_models' =
                [is_input |-> FALSE, models |-> do_drizzle(input_models, kwargs)]
          /\ disk' = disk \cup Files(do_drizzle(input_models, kwargs))
          /\ pc' = "save_mosaics"
          /\ UNCHANGED <<i, error>>
    /\ UNCHANGED <<kwargs, input_models, median_model, saved, removed, compared,
                   reported, pre, runs>>

\* Lines 49-51: the resampler is built and run over the input set; its failure
\* leaves do_detection.
Resample ==
    /\ pc = "resample"
    /\ calls' = calls \cup {"resample"}
    /\ opened' = opened \cup Files(input_models)
    /\ \/ /\ Raise("ResampleError")
          /\ UNCHANGED <<drizzled_models, disk>>
       \/ /\ drizzled_models' =
                [is_input |-> FALSE, models |-> do_drizzle(input_models, kwargs)]
          /\ disk' = disk \cup Files(do_drizzle(input_models, kwargs))
          /\ pc' = IF kwargs.save_intermediate_results
                   THEN "save_mosaics" ELSE "init_median"
          /\ UNCHANGED <<i, error>>
    /\ UNCHANGED <<kwargs, input_models, median_model, saved, removed, compared,
                   reported, pre, runs>>

\* Lines 52-59: each mosaic is renamed with the _outlier_s2d suffix and saved.
\* The loop reads each mosaic through the container: one held as a file name
\* is opened.
SaveMosaic ==
    /\ pc = "save_mosaics"
    /\ \/ /\ i > Len(drizzled_models.models)
          /\ pc' = "init_median"
          /\ i' = 1
          /\ UNCHANGED <<drizzled_models, disk, saved, opened, error>>
       \/ /\ i <= Len(drizzled_models.models)
          /\ opened' = opened \cup Files(<<drizzled_models.models[i]>>)
          /\ \/ /\ ~Has("make_output_path")
                /\ Raise("KeyError")
                /\ UNCHANGED <<drizzled_models, disk, saved>>
             \/ /\ Has("make_output_path")
                /\ LET path == make_output_path(drizzled_models.models[i].filename,
                                                "_outlier_s2d.fits")
                   IN  /\ drizzled_models' =
                              [drizzled_models EXCEPT !.models[i].filename = path]
                       /\ \/ /\ saved' = Append(saved, path)
                             /\ disk' = disk \cup {path}
                             /\ i' = i + 1
                             /\ UNCHANGED <<pc, error>>
                          \/ /\ Raise("PersistenceError")
                             /\ UNCHANGED <<disk, saved>>
    /\ UNCHANGED <<kwargs, input_models, median_model, removed, calls,
                   compared, reported, pre, runs>>

\* Lines 60-61: with resampling disabled drizzled_models is input_models.
UseInputs ==
    /\ pc = "no_resample"
    /\ drizzled_models' = [is_input |-> TRUE, models |-> <<>>]
    /\ pc' = "weights"
    /\ UNCHANGED <<kwargs, input_models, median_model, disk, saved, opened, removed,
                   i, error, calls, compared, reported, pre, runs>>

\* BuildWeight as it would be did it store the weight map in the input's dq.
BuildWeightIntoDq ==
    /\ pc = "weights"
    /\ \/ /\ i > Len(input_models)
          /\ pc' = "init_median"
          /\ i' = 1
          /\ UNCHANGED <<input_models, error, calls, opened>>
       \/ /\ i <= Len(input_models)
          /\ input_models[i].file \notin disk \cup {<<>>}
          /\ Raise("FileNotFoundError")
          /\ UNCHANGED <<input_models, calls, opened>>
       \/ /\ i <= Len(input_models)
          /\ input_models[i].file \in disk \cup {<<>>}
          /\ ~(Has("weight_type") /\ Has("good_bits"))
          /\ opened' = opened \cup Files(<<input_models[i]>>)
          /\ Raise("KeyError")
          /\ UNCHANGED <<input_models, calls>>
       \/ /\ i <= Len(input_models)
          /\ input_models[i].file \in disk \cup {<<>>}
          /\ Has("weight_type") /\ Has("good_bits")
          /\ input_models' = [input_models EXCEPT ![i].dq =
                 build_driz_weight(input_models[i], kwargs.weight_type,
                                   kwargs.good_bits)]
          /\ calls' = calls \cup {"weight"}
          /\ opened' = opened \cup Files(<<input_models[i]>>)
          /\ i' = i + 1
          /\ UNCHANGED <<pc, error>>
    /\ UNCHANGED <<kwargs, drizzled_models, median_model, disk, saved, removed,
                   compared, reported, pre, runs>>

\* BuildWeight as it would be did it build every weight map from the first
\* input.
BuildWeightFromFirst ==
    /\ pc = "weights"
    /\ \/ /\ i > Len(input_models)
          /\ pc' = "init_median"
          /\ i' = 1
          /\ UNCHANGED <<input_models, error, calls, opened>>
       \/ /\ i <= Len(input_models)
          /\ input_models[i].file \notin disk \cup {<<>>}
          /\ Raise("FileNotFoundError")
          /\ UNCHANGED <<input_models, calls, opened>>
       \/ /\ i <= Len(input_models)
          /\ input_models[i].file \in disk \cup {<<>>}
          /\ ~(Has("weight_type") /\ Has("good_bits"))
          /\ opened' = opened \cup Files(<<input_models[i]>>)
          /\ Raise("KeyError")
          /\ UNCHANGED <<input_models, calls>>
       \/ /\ i <= Len(input_models)
          /\ input_models[i].file \in disk \cup {<<>>}
          /\ Has("weight_type") /\ Has("good_bits")
          /\ input_models' = [input_models EXCEPT ![i].wht =
                 build_driz_weight(input_models[1], kwargs.weight_type,
                                   kwargs.good_bits)]
          /\ calls' = calls \cup {"weight"}
          /\ opened' = opened \cup Files(<<input_models[i]>>)
          /\ i' = i + 1
          /\ UNCHANGED <<pc, error>>
    /\ UNCHANGED <<kwargs, drizzled_models, median_model, disk, saved, removed,
                   compared, reported, pre, runs>>

\* Lines 62-66: a weight map is built for each input and stored in its wht.
\* input_models[i] is evaluated first: an input held as a file name is opened,
\* which fails when the file is gone; the options are looked up after it.
BuildWeight ==
    /\ pc = "weights"
    /\ \/ /\ i > Len(input_models)
          /\ pc' = "init_median"
          /\ i' = 1
          /\ UNCHANGED <<input_models, error, calls, opened>>
       \/ /\ i <= Len(input_models)
          /\ input_models[i].file \notin disk \cup {<<>>}
          /\ Raise("FileNotFoundError")
          /\ UNCHANGED <<input_models, calls, opened>>
       \/ /\ i <= Len(input_models)
          /\ input_models[i].file \in disk \cup {<<>>}
          /\ ~(Has("weight_type") /\ Has("good_bits"))
          /\ opened' = opened \cup Files(<<input_models[i]>>)
          /\ Raise("KeyError")
          /\ UNCHANGED <<input_models, calls>>
       \/ /\ i <= Len(input_models)
          /\ input_models[i].file \in disk \cup {<<>>}
          /\ Has("weight_type") /\ Has("good_bits")
          /\ input_models' = [input_models EXCEPT ![i].wht =
                 build_driz_weight(input_models[i], kwargs.weight_type,
                                   kwargs.good_bits)]
          /\ calls' = calls \cup {"weight"}
          /\ opened' = opened \cup Files(<<input_models[i]>>)
          /\ i' = i + 1
          /\ UNCHANGED <<pc, error>>
    /\ UNCHANGED <<kwargs, drizzled_models, median_model, disk, saved, removed,
                   compared, reported, pre, runs>>

\* Lines 68-74: the median model takes the shape of the first mosaic and its
\* meta object, whose filename is then set to the median output path.
\* drizzled_models[0] is read through the container, and input_models[0] once
\* make_output_path has been looked up: an entry held as a file name is opened.
InitMedian ==
    /\ pc = "init_median"
    /\ \/ /\ Len(Drizzled) = 0
          /\ Raise("IndexError")
          /\ UNCHANGED <<input_models, drizzled_models, median_model, opened>>
       \/ /\ Len(Drizzled) > 0
          /\ median_model' =
                [made |-> TRUE, computed |-> FALSE,
                 data |-> [g \in 1..Len(Drizzled[1].data) |-> Fin(0)]]
          /\ \/ /\ ~Has("make_output_path")
                /\ opened' = opened \cup Files(<<Drizzled[1]>>)
                /\ Raise("KeyError")
                /\ UNCHANGED <<input_models, drizzled_models>>
             \/ /\ Has("make_output_path")
                /\ opened' = opened \cup Files(<<Drizzled[1], input_models[1]>>)
                /\ LET path == make_output_path(input_models[1].filename, "median")
                   IN  IF drizzled_models.is_input
                       THEN /\ input_models' =
                                  [input_models EXCEPT ![1].filename = path]
                            /\ UNCHANGED drizzled_models
                       ELSE /\ drizzled_models' =
                                  [drizzled_models EXCEPT !.models[1].filename = path]
                            /\ UNCHANGED input_models
                /\ pc' = "create_median"
                /\ UNCHANGED <<i, error>>
    /\ UNCHANGED <<kwargs, disk, saved, removed, calls, compared, reported,
                   pre, runs>>

\* MedianData as it would be were the non-finite pixels of the combination
\* replaced by zero.
MedianDataNanToZero(stack, maskpt) ==
    [g \in 1..Len(stack[1].data) |->
        IF create_median(stack, maskpt)[g].finite
        THEN create_median(stack, maskpt)[g] ELSE Fin(0)]

\* Line 78, right-hand side: the data the median model is given.
MedianData(stack, maskpt) == create_median(stack, maskpt)

\* CreateMedian as it would be were the combination moved after the call of
\* detect_outliers: the median model goes on as it was initialised.
CreateMedianDeferred ==
    /\ pc = "create_median"
    /\ \/ /\ ~Has("maskpt")
          /\ Raise("KeyError")
       \/ /\ Has("maskpt")
          /\ pc' = IF kwargs.save_intermediate_results
                   THEN "save_median" ELSE "remove"
          /\ UNCHANGED <<i, error>>
    /\ UNCHANGED <<kwargs, input_models, drizzled_models, median_model, disk, saved,
                   opened, removed, calls, compared, reported, pre, runs>>

\* Lines 76-78: the median combination of the mosaics; its failure leaves
\* do_detection.
CreateMedian ==
    /\ pc = "create_median"
    /\ \/ /\ ~Has("maskpt")
          /\ Raise("KeyError")
          /\ UNCHANGED <<median_model, calls, opened>>
       \/ /\ Has("maskpt")
          /\ calls' = calls \cup {"median"}
          /\ opened' = opened \cup Files(Drizzled)
          /\ \/ /\ Raise("CombineError")
                /\ UNCHANGED median_model
             \/ /\ median_model' =
                      [median_model EXCEPT
                          !.data = MedianData(Drizzled, kwargs.maskpt),
                          !.computed = TRUE]
                /\ pc' = IF kwargs.save_intermediate_results
                         THEN "save_median" ELSE "remove"
                /\ UNCHANGED <<i, error>>
    /\ UNCHANGED <<kwargs, input_models, drizzled_models, disk, saved, removed,
                   compared, reported, pre, runs>>

\* Lines 80-83: the median image is saved under its filename.
SaveMedian ==
    /\ pc = "save_median"
    /\ \/ /\ saved' = Append(saved, MedianFilename)
          /\ disk' = disk \cup {MedianFilename}
          /\ pc' = "detect"
          /\ UNCHANGED <<i, error>>
       \/ /\ Raise("PersistenceError")
          /\ UNCHANGED <<disk, saved>>
    /\ UNCHANGED <<kwargs, input_models, drizzled_models, median_model, opened,
                   removed, calls, compared, reported, pre, runs>>

\* RemoveFiles as it would be did it not look at in_memory.
RemoveFilesWhateverInMemory ==
    /\ pc = "remove"
    /\ \/ /\ ~Has("in_memory")
          /\ Raise("KeyError")
          /\ UNCHANGED <<disk, removed, calls>>
       \/ /\ Has("in_memory")
          /\ disk' = disk \ Files(Drizzled)
          /\ removed' = removed \cup (disk \cap Files(Drizzled))
          /\ calls' = calls \cup {"remove"}
          /\ pc' = "detect"
          /\ UNCHANGED <<i, error>>
    /\ UNCHANGED <<kwargs, input_models, drizzled_models, median_model, saved,
                   opened, compared, reported, pre, runs>>

\* Lines 84-90: nothing is kept; unless in_memory, the file of every entry of
\* drizzled_models is removed.
RemoveFiles ==
    /\ pc = "remove"
    /\ \/ /\ ~Has("in_memory")
          /\ Raise("KeyError")
          /\ UNCHANGED <<disk, removed, calls>>
       \/ /\ Has("in_memory")
          /\ kwargs.in_memory
          /\ pc' = "detect"
          /\ UNCHANGED <<disk, removed, calls, i, error>>
       \/ /\ Has("in_memory")
          /\ ~kwargs.in_memory
          /\ disk' = disk \ Files(Drizzled)
          /\ removed' = removed \cup (disk \cap Files(Drizzled))
          /\ calls' = calls \cup {"remove"}
          /\ pc' = "detect"
          /\ UNCHANGED <<i, error>>
    /\ UNCHANGED <<kwargs, input_models, drizzled_models, median_model, saved,
                   opened, compared, reported, pre, runs>>

\* Lines 92-101: the arguments of detect_outliers are looked up and it is called
\* with the input set, the median model and the raw resample_data.
DetectCall ==
    /\ pc = "detect"
    /\ \/ /\ ~(Has("snr") /\ Has("scale") /\ Has("backg"))
          /\ Raise("KeyError")
          /\ UNCHANGED calls
       \/ /\ Has("snr") /\ Has("scale") /\ Has("backg")
          /\ calls' = calls \cup {"detect"}
          /\ pc' = "detect_outliers"
          /\ UNCHANGED <<i, error>>
    /\ UNCHANGED <<kwargs, input_models, drizzled_models, median_model, disk, saved,
                   opened, removed, compared, reported, pre, runs>>

\* The quality flags of exposure e after its comparison with the reference.
Flagged(e) ==
    mask_writer(input_models[e].dq,
                compare(input_models[e].data,
                        NativeReference(median_model.data, e, kwargs.resample_data),
                        kwargs.snr, kwargs.scale, kwargs.backg))

\* DetectExposure as it would be did the failure of one exposure end the run.
DetectExposureAbort ==
    /\ pc = "detect_outliers"
    /\ \/ /\ i > Len(input_models)
          /\ pc' = "finish"
          /\ i' = 1
          /\ UNCHANGED <<input_models, compared, reported, opened, error>>
       \/ /\ i <= Len(input_models)
          /\ reported' = reported \cup {i}
          /\ Raise("PerExposureError")
          /\ UNCHANGED <<input_models, compared, opened>>
       \/ /\ i <= Len(input_models)
          /\ input_models[i].file \in disk \cup {<<>>}
          /\ input_models' = [input_models EXCEPT ![i].dq = Flagged(i)]
          /\ compared' = compared \cup {i}
          /\ opened' = opened \cup Files(<<input_models[i]>>)
          /\ i' = i + 1
          /\ UNCHANGED <<reported, pc, error>>
    /\ UNCHANGED <<kwargs, drizzled_models, median_model, disk, saved, removed,
                   calls, pre, runs>>

\* detect_outliers, one exposure: it is back-projected onto, compared and
\* flagged, or its failure is reported and the exposure left as it is.  An
\* exposure whose file is gone cannot be read.
DetectExposure ==
    /\ pc = "detect_outliers"
    /\ \/ /\ i > Len(input_models)
          /\ pc' = "finish"
          /\ i' = 1
          /\ UNCHANGED <<input_models, compared, reported, opened>>
       \/ /\ i <= Len(input_models)
          /\ reported' = reported \cup {i}
          /\ i' = i + 1
          /\ UNCHANGED <<input_models, compared, opened, pc>>
       \/ /\ i <= Len(input_models)
          /\ input_models[i].file \in disk \cup {<<>>}
          /\ input_models' = [input_models EXCEPT ![i].dq = Flagged(i)]
          /\ compared' = compared \cup {i}
          /\ opened' = opened \cup Files(<<input_models[i]>>)
          /\ i' = i + 1
          /\ UNCHANGED <<reported, pc>>
    /\ UNCHANGED <<kwargs, drizzled_models, median_model, disk, saved, removed,
                   error, calls, pre, runs>>

\* Line 103: del median_model; do_detection returns.
Finish ==
    /\ pc = "finish"
    /\ median_model' = NoMedian
    /\ pc' = "done"
    /\ UNCHANGED <<kwargs, input_models, drizzled_models, disk, saved, opened,
                   removed, i, error, calls, compared, reported, pre, runs>>

\* do_detection is called again on the same exposure set with the same
\* keyword arguments; the locals of the call before are gone.
Rerun ==
    /\ pc \in {"done", "failed"}
    /\ runs < MaxRuns
    /\ runs' = runs + 1
    /\ pre' = [models |-> input_models, disk |-> disk]
    /\ drizzled_models' = NoMosaics
    /\ median_model' = NoMedian
    /\ saved' = <<>>
    /\ opened' = {}
    /\ removed' = {}
    /\ pc' = "start"
    /\ i' = 1
    /\ error' = "none"
    /\ calls' = {}
    /\ compared' = {}
    /\ reported' = {}
    /\ UNCHANGED <<kwargs, input_models, disk>>

Next ==
    \/ Begin
    \/ Resample
    \/ SaveMosaic
    \/ UseInputs
    \/ BuildWeight
    \/ InitMedian
    \/ CreateMedian
    \/ SaveMedian
    \/ RemoveFiles
    \/ DetectCall
    \/ DetectExposure
    \/ Finish
    \/ Rerun

Spec == Init /\ [][Next]_vars

\* ---------------------------------------------------------------- claims
\* The reference is on hand: create_median has returned and the median model
\* has not been deleted yet.
ReferenceBuilt == pc \in {"save_median", "remove", "detect", "detect_outliers", "finish"}

\* The exposures of the set.
Exps == 1..Len(input_models)

\* The reference on the native grid of exposure e, as detect_outliers is given it.
Native(e) == NativeReference(median_model.data, e, kwargs.resample_data)

\* Pixel p of exposure e has the outlier bit now and had not when the run began.
NewlyFlagged(e, p) ==
    /\ HasBit(input_models[e].dq[p], OUTLIER)
    /\ ~HasBit(pre.models[e].dq[p], OUTLIER)

\* C1: whenever detect_outliers has been invoked in a run (and whenever an
\* exposure has been compared or reported), create_median has been invoked
\* and has returned, and the median model holds the complete combination of
\* the mosaic stack, for every configuration.
C1_MedianBeforeDetect ==
    ("detect" \in calls \/ compared # {} \/ reported # {}) =>
        /\ "median" \in calls
        /\ pc \in {"detect_outliers", "finish"} =>
              /\ median_model.computed
              /\ median_model.data = create_median(Drizzled, kwargs.maskpt)

\* C1 witness: an exposure has been compared while others are still to come.
C1_Witness ==
    /\ pc = "detect_outliers"
    /\ compared # {}
    /\ i <= Len(input_models)
    /\ median_model.computed

\* C2: when the resampler or the median combiner fails, or the exposure set is
\* empty, the run has failed, detect_outliers was never invoked, no exposure
\* was compared and every quality-flag array is as it was before the run.
C2_FatalBeforeReference ==
    /\ error \in {"ResampleError", "CombineError", "IndexError"} =>
          /\ pc = "failed"
          /\ "detect" \notin calls
          /\ compared = {}
          /\ \A e \in Exps : input_models[e].dq = pre.models[e].dq
    /\ Len(input_models) = 0 =>
          /\ pc \notin {"detect", "detect_outliers", "finish", "done"}
          /\ "detect" \notin calls

\* C2 witness: the median combiner has failed on a non-empty set.
C2_Witness ==
    /\ pc = "failed"
    /\ error = "CombineError"
    /\ Len(input_models) > 0

\* C3: the failure of one exposure in detect_outliers does not end the run;
\* when the loop is over, every exposure was either reported, and then its
\* quality flags are as before the run, or compared, and then its flags are
\* the flagged ones.
C3_PerExposureFailureContained ==
    /\ reported # {} => pc \in {"detect_outliers", "finish", "done"} /\ error = "none"
    /\ pc = "finish" =>
          /\ compared \cup reported = Exps
          /\ compared \cap reported = {}
          /\ \A e \in reported : input_models[e].dq = pre.models[e].dq
          /\ \A e \in compared :
                input_models[e].dq =
                    mask_writer(pre.models[e].dq,
                                compare(input_models[e].data, Native(e),
                                        kwargs.snr, kwargs.scale, kwargs.backg))

\* C3 witness: the loop is over, one exposure failed and another was flagged.
C3_Witness ==
    /\ pc = "finish"
    /\ reported # {}
    /\ \E e \in compared : \E p \in 1..NPix : NewlyFlagged(e, p)

\* C4 (as claimed), for a call with every option present: when the run has
\* returned, the flux, the weight attribute and the metadata of every input
\* exposure are as they were before it.
C4_OnlyQualityFlagsChange ==
    (pc = "done" /\ kwargs.missing = "none") =>
        \A e \in Exps :
            /\ input_models[e].data = pre.models[e].data
            /\ input_models[e].wht = pre.models[e].wht
            /\ input_models[e].filename = pre.models[e].filename
            /\ input_models[e].file = pre.models[e].file

\* The paths saved in this run that are mosaics, and those that are the median.
Last(path) == path[Len(path)]
SavedSet == {saved[j] : j \in 1..Len(saved)}
SavedMosaics == {f \in SavedSet : Last(f) = "_outlier_s2d.fits"}
SavedMedians == {f \in SavedSet : Last(f) = "median"}

\* C5: a mosaic is saved only when save_intermediate_results is set and the
\* resampler ran; in a run that reached the comparison every mosaic is saved
\* if and only if both hold, and the median if and only if
\* save_intermediate_results is set; no path is saved to twice in a run and
\* no saved path is read.
C5_PersistedArtifacts ==
    /\ SavedSet = SavedMosaics \cup SavedMedians
    /\ SavedMosaics # {} =>
          kwargs.save_intermediate_results /\ "resample" \in calls
    /\ SavedMedians # {} => kwargs.save_intermediate_results
    /\ Cardinality(SavedSet) = Len(saved)
    /\ SavedSet \cap opened = {}
    /\ pc \in {"detect", "detect_outliers", "finish", "done"} =>
          /\ Cardinality(SavedMosaics) =
                IF kwargs.save_intermediate_results /\ ~drizzled_models.is_input
                THEN Len(drizzled_models.models) ELSE 0
          /\ Cardinality(SavedMedians) =
                IF kwargs.save_intermediate_results THEN 1 ELSE 0

\* C5 witness: a run that saved two mosaics and the median has returned.
C5_Witness ==
    /\ pc = "done"
    /\ Cardinality(SavedMosaics) = 2
    /\ Cardinality(SavedMedians) = 1

\* C6 (as claimed), for a call with every option present: the failure of a
\* write of an intermediate product does not end the run.
C6_WriteFailureRecovered ==
    kwargs.missing = "none" => ~(pc = "failed" /\ error = "PersistenceError")

\* C7 (as claimed): when a missing option ends the run, no collaborator has
\* been invoked, no file written or removed, and the inputs (weights and
\* quality flags included) are as they were.
C7_ConfigErrorBeforeProcessing ==
    error = "KeyError" =>
        /\ calls = {}
        /\ saved = <<>>
        /\ removed = {}
        /\ disk = pre.disk
        /\ input_models = pre.models

\* C8 (as claimed), for a call with every option present: a run that does
\* not keep intermediate products ends, normally or by an error, with none of
\* its mosaics left in storage.
C8_IntermediatesReleased ==
    (pc \in {"done", "failed"} /\ kwargs.missing = "none"
        /\ ~kwargs.save_intermediate_results) =>
        Files(drizzled_models.models) \cap disk = {}

\* C9: every step leaves each bit of each quality-flag array set, changes a
\* pixel by at most the outlier bit, changes the array of exposure e only in
\* the comparison of exposure e, there only where the outlier mask is true,
\* and applying that mask again to the result changes nothing.
C9_QualityFlagsOnlyGainOutlier ==
    [][/\ Len(input_models') = Len(input_models)
       /\ \A e \in Exps :
            LET old  == input_models[e].dq
                new  == input_models'[e].dq
                mask == compare(input_models[e].data, Native(e),
                                kwargs.snr, kwargs.scale, kwargs.backg)
            IN  /\ Len(new) = Len(old)
                /\ \A p \in 1..Len(old) :
                      /\ \A b \in {DO_NOT_USE, OUTLIER} :
                            HasBit(old[p], b) => HasBit(new[p], b)
                      /\ new[p] \in {old[p], BitOr(old[p], OUTLIER)}
                /\ new # old => pc = "detect_outliers" /\ i = e
                /\ (pc = "detect_outliers" /\ i = e /\ e \in compared') =>
                      /\ \A p \in 1..Len(old) : ~mask[p] => new[p] = old[p]
                      /\ \A p \in 1..Len(old) : mask[p] => HasBit(new[p], OUTLIER)
                      /\ mask_writer(new, mask) = new]_vars

\* C9 witness: in a second run an exposure has been compared whose outlier
\* mask is true at a pixel that entered the run with the outlier bit set, the
\* mask of the run before applied once more.
C9_Witness ==
    /\ runs = 2
    /\ pc \in {"detect_outliers", "finish"}
    /\ \E e \in compared : \E p \in 1..NPix :
          /\ HasBit(pre.models[e].dq[p], OUTLIER)
          /\ compare(input_models[e].data, Native(e),
                     kwargs.snr, kwargs.scale, kwargs.backg)[p]
          /\ input_models[e].dq[p] = pre.models[e].dq[p]

\* C10: once the reference is built, it is non-finite at every grid position
\* where every member of the mosaic stack has zero weight, and no exposure
\* has the outlier bit newly set at a pixel whose native reference is
\* non-finite.
C10_NoConsensusNeverOutlier ==
    ReferenceBuilt =>
        /\ \A g \in 1..Len(median_model.data) :
              (\A m \in 1..Len(Drizzled) : Drizzled[m].wht[g] = 0) =>
                  ~median_model.data[g].finite
        /\ \A e \in Exps : \A p \in 1..NPix :
              ~Native(e)[p].finite => ~NewlyFlagged(e, p)

\* C10 witness: every exposure was compared against a reference that is
\* non-finite at one of its pixels, where every stack member has zero weight,
\* and a pixel elsewhere was flagged.
C10_Witness ==
    /\ pc = "finish"
    /\ compared = Exps
    /\ \E e \in Exps : \E p \in 1..NPix :
          /\ ~Native(e)[p].finite
          /\ \E g \in 1..Len(median_model.data) :
                \A m \in 1..Len(Drizzled) : Drizzled[m].wht[g] = 0
    /\ \E e \in Exps : \E p \in 1..NPix : NewlyFlagged(e, p)

\* The native grid of exposure e: its shape and its place on the sky.
NativeGrid(e) == [shape |-> Len(input_models[e].data), origin |-> Offset(e)]

\* The grid of the reference image: the shape of the median model's data and
\* the coordinates of its meta, which is the meta of drizzled_models[0]: the
\* first input exposure's own, or the common grid of the mosaics.
ReferenceGrid ==
    [shape  |-> Len(median_model.data),
     origin |-> IF drizzled_models.is_input THEN Offset(1) ELSE 0]

\* C11 (as claimed), for a call with every option present: with resample_data
\* disabled, once the reference is built its grid has the shape and the
\* coordinates of the native grid of every input exposure.
C11_ReferenceGridIsEveryNativeGrid ==
    (ReferenceBuilt /\ kwargs.missing = "none" /\ drizzled_models.is_input) =>
        \A e \in Exps : ReferenceGrid = NativeGrid(e)

\* C12: on the path without resampling, once the median combiner has been
\* invoked the resampler has not been, and the stack the combiner was given
\* has one member per input exposure, in input order, member m holding the
\* data of exposure m and the weight map built from exposure m with the
\* configured weight_type and good_bits.
C12_PassthroughStack ==
    (drizzled_models.is_input /\ "median" \in calls) =>
        /\ "resample" \notin calls
        /\ Len(Drizzled) = Len(pre.models)
        /\ \A m \in 1..Len(Drizzled) :
              /\ Drizzled[m].data = pre.models[m].data
              /\ Drizzled[m].wht =
                    build_driz_weight(pre.models[m], kwargs.weight_type,
                                      kwargs.good_bits)

\* C12 witness: the combiner has run over two inputs taken as they are, whose
\* weight maps differ.
C12_Witness ==
    /\ ReferenceBuilt
    /\ drizzled_models.is_input
    /\ Len(input_models) = 2
    /\ input_models[1].wht # input_models[2].wht

\* C13: a step in which the controller removes files is the removal step of
\* a run with save_intermediate_results false and in_memory false, taken
\* when the reference has been computed and detect_outliers not yet invoked,
\* and it takes the files of all mosaics out of storage; no other step takes
\* a file out of storage; with save_intermediate_results or in_memory true
\* nothing is removed; and when detect_outliers is invoked the removal has
\* been made if and only if both are false.
C13_RemovalOnlyWhenNothingKept ==
    [][/\ (("remove" \in calls' /\ "remove" \notin calls)
              \/ (removed' # removed /\ removed' # {})) =>
             /\ pc = "remove"
             /\ ~kwargs.save_intermediate_results
             /\ ~kwargs.in_memory
             /\ median_model.computed
             /\ "median" \in calls
             /\ "detect" \notin calls
             /\ compared = {} /\ reported = {}
             /\ Files(drizzled_models.models) \cap disk' = {}
       /\ ~(disk \subseteq disk') => "remove" \in calls' /\ "remove" \notin calls
       /\ (kwargs.save_intermediate_results \/ kwargs.in_memory) => removed' = {}
       /\ "detect" \in calls' =>
             ("remove" \in calls' <=>
                 (~kwargs.save_intermediate_results /\ ~kwargs.in_memory))]_vars

\* C13 witness: the files of the mosaics have been removed and the comparison
\* is under way.
C13_Witness ==
    /\ pc = "detect_outliers"
    /\ ~drizzled_models.is_input
    /\ removed # {}
    /\ removed = Files(drizzled_models.models)

\* C14 (as claimed), for a call with every option present: no file removed
\* in a run is the file of an input exposure, and the file of every input
\* exposure is in storage while detect_outliers runs.
C14_InputFilesNeverRemoved ==
    kwargs.missing = "none" =>
        /\ removed \cap Files(pre.models) = {}
        /\ pc = "detect_outliers" => Files(input_models) \subseteq disk

\* C15 (as claimed), for a call with every option present: when
\* detect_outliers has been invoked, the resample flag it was handed is true
\* if and only if the stack the median combiner was given came from the
\* resampler.
C15_ResampleFlagAgreesWithPath ==
    (kwargs.missing = "none" /\ "detect" \in calls) =>
        (Truthy(kwargs.resample_data) <=> ~drizzled_models.is_input)

====
